---- MODULE Spec2Model ----
(***************************************************************************)
(* Model of govstack_api/building_blocks/bb_digital_registries/registries/ *)
(* registry_qgl_utils.py: DataConverterUtils, DataMapper,                  *)
(* GQLPayloadTemplate, GQLPayloadBuilder and RegistryGQLManager.           *)
(*                                                                         *)
(* Representation.                                                         *)
(*  - A Python dict is a sequence of <<key, value>> pairs in insertion     *)
(*    order (the code reads list(mapped_data.keys())[0]).                  *)
(*  - A Python str value is [t |-> "str", s |-> <<characters>>], a list    *)
(*    value is [t |-> "list", s |-> <<items>>].  Field names are atoms.    *)
(*  - None is the string "None" for names and -1 for integers.             *)
(*  - A rendered argument `field: value` is a record naming the field, the *)
(*    textual form of the value and the characters / number rendered.      *)
(*  - A raised exception is the field `raised` of the returned record.     *)
(***************************************************************************)
EXTENDS Integers, Sequences, FiniteSets, TLC

VARIABLES
    mapper,     \* the DataMapper handed to the manager / builder (qgl_mapper)
    id_field,   \* GQLPayloadBuilder.id_field
    pc,         \* position of the current call
    call,       \* operation and arguments of the current / last call
    query,      \* document built by the payload builder
    envelope,   \* what client.execute_query returned
    log,        \* what MutationLog.objects.filter(...).first() returned
    result,     \* value returned / exception raised by the call
    events      \* collaborator invocations made by the call, in order

vars == <<mapper, id_field, pc, call, query, envelope, log, result, events>>

NoneS == "None"
NoneI == -1

----------------------------------------------------------------------------
(* Bounds *)
MaxKeys == 2        \* keys in a request record
MaxPage == 2        \* largest page number
MaxPageSize == 3    \* largest page size / first
MaxRawLen == 3      \* characters in a raw identifier
MaxEdges == 2       \* edges in a response envelope

----------------------------------------------------------------------------
(* Python dict and list primitives *)

Range(s) == {s[i] : i \in 1..Len(s)}

InList(l, x) == \E i \in 1..Len(l) : l[i] = x

Keys(d) == [i \in 1..Len(d) |-> d[i][1]]

Vals(d) == [i \in 1..Len(d) |-> d[i][2]]

Has(d, k) == \E i \in 1..Len(d) : d[i][1] = k

Get(d, k) == d[CHOOSE i \in 1..Len(d) : d[i][1] = k][2]

Put(d, k, v) ==
    IF Has(d, k)
    THEN [i \in 1..Len(d) |-> IF d[i][1] = k THEN <<k, v>> ELSE d[i]]
    ELSE Append(d, <<k, v>>)

\* dict.get(k, default)
GetOr(d, k, default) == IF Has(d, k) THEN Get(d, k) ELSE default

RECURSIVE Pop(_, _)
Pop(d, k) ==
    IF d = <<>> THEN <<>>
    ELSE IF Head(d)[1] = k THEN Pop(Tail(d), k)
    ELSE <<Head(d)>> \o Pop(Tail(d), k)

RECURSIVE Update(_, _)
Update(d, e) == IF e = <<>> THEN d ELSE Update(Put(d, Head(e)[1], Head(e)[2]), Tail(e))

Str(chars) == [t |-> "str", s |-> chars]
List(items) == [t |-> "list", s |-> items]
NoneV == [t |-> "none", s |-> <<>>]

Truthy(v) == v.t # "none" /\ v.s # <<>>

----------------------------------------------------------------------------
(* str.isdigit and int *)

Digits == {"0", "1", "2", "3", "4", "5", "6", "7", "8", "9"}

DigitVal(c) == CASE c = "0" -> 0 [] c = "1" -> 1 [] c = "2" -> 2 [] c = "3" -> 3
                 [] c = "4" -> 4 [] c = "5" -> 5 [] c = "6" -> 6 [] c = "7" -> 7
                 [] c = "8" -> 8 [] c = "9" -> 9

isdigit(chars) == chars # <<>> /\ \A i \in 1..Len(chars) : chars[i] \in Digits

RECURSIVE int(_)
int(chars) ==
    IF chars = <<>> THEN 0
    ELSE 10 * int(SubSeq(chars, 1, Len(chars) - 1)) + DigitVal(chars[Len(chars)])

----------------------------------------------------------------------------
(* json.dumps / json.loads over flat objects of strings and lists *)

RECURSIVE JoinItems(_)
JoinItems(items) ==
    IF items = <<>> THEN <<>>
    ELSE <<"\"", Head(items), "\"">>
         \o (IF Tail(items) = <<>> THEN <<>> ELSE <<",", " ">>)
         \o JoinItems(Tail(items))

json_dumps_value(v) ==
    IF v.t = "list" THEN <<"[">> \o JoinItems(v.s) \o <<"]">>
    ELSE <<"\"">> \o v.s \o <<"\"">>

RECURSIVE JoinPairs(_)
JoinPairs(d) ==
    IF d = <<>> THEN <<>>
    ELSE <<"\"", Head(d)[1], "\"", ":", " ">> \o json_dumps_value(Head(d)[2])
         \o (IF Tail(d) = <<>> THEN <<>> ELSE <<",", " ">>)
         \o JoinPairs(Tail(d))

json_dumps(d) == <<"{">> \o JoinPairs(d) \o <<"}">>

\* index of the first token equal to c at or after position i
RECURSIVE FindTok(_, _, _)
FindTok(toks, i, c) ==
    IF i > Len(toks) THEN 0
    ELSE IF toks[i] = c THEN i ELSE FindTok(toks, i + 1, c)

RECURSIVE ParseItems(_, _, _)
ParseItems(toks, i, acc) ==
    IF toks[i] = "]" THEN [items |-> acc, next |-> i + 1]
    ELSE IF toks[i] = "," THEN ParseItems(toks, i + 2, acc)
    ELSE ParseItems(toks, i + 3, Append(acc, toks[i + 1]))

RECURSIVE ParsePairs(_, _, _)
ParsePairs(toks, i, acc) ==
    IF toks[i] = "}" THEN acc
    ELSE IF toks[i] = "," THEN ParsePairs(toks, i + 2, acc)
    ELSE LET key == toks[i + 1]
             v0 == i + 5
         IN  IF toks[v0] = "["
             THEN LET p == ParseItems(toks, v0 + 1, <<>>)
                  IN  ParsePairs(toks, p.next, Put(acc, key, List(p.items)))
             ELSE LET close == FindTok(toks, v0 + 1, "\"")
                  IN  ParsePairs(toks, close + 1,
                                 Put(acc, key, Str(SubSeq(toks, v0 + 1, close - 1))))

json_loads(toks) == ParsePairs(toks, 2, <<>>)

----------------------------------------------------------------------------
(* base64.b64encode / b64decode, str.encode / bytes.decode, str.split *)

B64Alphabet ==
    <<"A", "B", "C", "D", "E", "F", "G", "H", "I", "J", "K", "L", "M", "N", "O", "P",
      "Q", "R", "S", "T", "U", "V", "W", "X", "Y", "Z", "a", "b", "c", "d", "e", "f",
      "g", "h", "i", "j", "k", "l", "m", "n", "o", "p", "q", "r", "s", "t", "u", "v",
      "w", "x", "y", "z", "0", "1", "2", "3", "4", "5", "6", "7", "8", "9", "+", "/">>

B64Char(n) == B64Alphabet[n + 1]

B64Index(c) == CHOOSE n \in 0..63 : B64Alphabet[n + 1] = c

\* code points of the characters identifiers are made of
CodePoints ==
    << <<"1", 49>>, <<"5", 53>>, <<":", 58>>, <<"I", 73>>, <<"J", 74>>, <<"T", 84>>,
       <<"a", 97>>, <<"b", 98>>, <<"n", 110>>, <<"o", 111>> >>

Ord(c) == Get(CodePoints, c)

Chr(b) == CodePoints[CHOOSE i \in 1..Len(CodePoints) : CodePoints[i][2] = b][1]

str_encode(chars) == [i \in 1..Len(chars) |-> Ord(chars[i])]

bytes_decode(bytes) == [i \in 1..Len(bytes) |-> Chr(bytes[i])]

RECURSIVE b64encode(_)
b64encode(bytes) ==
    IF bytes = <<>> THEN <<>>
    ELSE LET b1 == bytes[1]
         IN  IF Len(bytes) = 1
             THEN <<B64Char(b1 \div 4), B64Char((b1 % 4) * 16), "=", "=">>
             ELSE LET b2 == bytes[2]
                  IN  IF Len(bytes) = 2
                      THEN <<B64Char(b1 \div 4), B64Char((b1 % 4) * 16 + b2 \div 16),
                             B64Char((b2 % 16) * 4), "=">>
                      ELSE LET b3 == bytes[3]
                           IN  <<B64Char(b1 \div 4), B64Char((b1 % 4) * 16 + b2 \div 16),
                                 B64Char((b2 % 16) * 4 + b3 \div 64), B64Char(b3 % 64)>>
                               \o b64encode(SubSeq(bytes, 4, Len(bytes)))

\* b64decode of a correctly padded string over the base64 alphabet
RECURSIVE b64decode(_)
b64decode(chars) ==
    IF chars = <<>> THEN <<>>
    ELSE LET n1 == B64Index(chars[1])
             n2 == B64Index(chars[2])
             b1 == n1 * 4 + n2 \div 16
         IN  IF chars[3] = "=" THEN <<b1>>
             ELSE LET n3 == B64Index(chars[3])
                      b2 == (n2 % 16) * 16 + n3 \div 4
                  IN  IF chars[4] = "=" THEN <<b1, b2>>
                      ELSE <<b1, b2, (n3 % 4) * 64 + B64Index(chars[4])>>
                           \o b64decode(SubSeq(chars, 5, Len(chars)))

WellPadded(chars) ==
    /\ Len(chars) % 4 = 0
    /\ \A i \in 1..Len(chars) :
          \/ chars[i] \in Range(B64Alphabet)
          \/ chars[i] = "=" /\ i >= Len(chars) - 1 /\ (i = Len(chars) \/ chars[Len(chars)] = "=")

\* str.split(sep): the pieces between the occurrences of sep
RECURSIVE split(_, _)
split(chars, sep) ==
    LET i == FindTok(chars, 1, sep)
    IN  IF i = 0 THEN <<chars>>
        ELSE <<SubSeq(chars, 1, i - 1)>> \o split(SubSeq(chars, i + 1, Len(chars)), sep)

----------------------------------------------------------------------------
(* DataMapper *)

DefaultMetaFields == <<"uuid", "uuids">>

\* DataMapper.__init__; meta_fields = <<>> stands for None (or an empty list):
\* `meta_fields or ['uuid', 'uuids']`
DataMapper(fields_mapping, special_fields, default_values, meta_fields) ==
    [fields_mapping |-> fields_mapping,
     special_fields |-> special_fields,
     meta_fields    |-> IF meta_fields = <<>> THEN DefaultMetaFields ELSE meta_fields,
     default_values |-> default_values]

NoDetail == [field |-> NoneS, allowed |-> <<>>, special |-> <<>>, text |-> <<>>]

Returned(v) == [raised |-> "none", detail |-> NoDetail, value |-> v]

Raised(kind, detail) == [raised |-> kind, detail |-> detail, value |-> <<>>]

\* the loop of map_to_graphql from position i on
RECURSIVE MapLoop(_, _, _, _, _)
MapLoop(self, validated_data, i, mapped_data, json_ext) ==
    IF i > Len(validated_data)
    THEN Returned(IF json_ext # <<>>
                  THEN Put(mapped_data, "jsonExt", Str(json_dumps(json_ext)))
                  ELSE mapped_data)
    ELSE LET http_field == validated_data[i][1]
             value == validated_data[i][2]
         IN  IF Has(self.fields_mapping, http_field)
             THEN MapLoop(self, validated_data, i + 1,
                          Put(mapped_data, Get(self.fields_mapping, http_field), value),
                          json_ext)
             ELSE IF InList(self.special_fields, http_field)
             THEN MapLoop(self, validated_data, i + 1, mapped_data,
                          Put(json_ext, http_field, value))
             ELSE IF InList(self.meta_fields, http_field)
             THEN MapLoop(self, validated_data, i + 1,
                          Put(mapped_data, http_field, value), json_ext)
             ELSE Raised("MutationError",
                         [field   |-> http_field,
                          allowed |-> Keys(self.fields_mapping),
                          special |-> self.special_fields,
                          text    |-> <<>>])

map_to_graphql(self, validated_data) == MapLoop(self, validated_data, 1, <<>>, <<>>)

\* a reversal that forgets to swap keys and values
Reversed_NotSwapped(fm) == fm

\* {v: k for k, v in fields_mapping.items()}
RECURSIVE Reversed(_)
Reversed(fm) ==
    IF fm = <<>> THEN <<>>
    ELSE Put(Reversed(SubSeq(fm, 1, Len(fm) - 1)), fm[Len(fm)][2], fm[Len(fm)][1])

RECURSIVE RegistryEntry(_, _, _, _)
RegistryEntry(self, next_record, i, mapped_entry) ==
    IF i > Len(next_record) THEN mapped_entry
    ELSE LET k == next_record[i][1]
             v == next_record[i][2]
             rev == Reversed(self.fields_mapping)
         IN  IF InList(self.meta_fields, k)
             THEN RegistryEntry(self, next_record, i + 1, mapped_entry)
             ELSE LET e1 == IF Has(rev, k) THEN Put(mapped_entry, Get(rev, k), v)
                            ELSE mapped_entry
                      e2 == IF InList(self.special_fields, k) THEN Put(e1, k, v) ELSE e1
                  IN  RegistryEntry(self, next_record, i + 1, e2)

map_to_registry(self, graphql_data) ==
    [n \in 1..Len(graphql_data) |-> RegistryEntry(self, graphql_data[n], 1, <<>>)]

----------------------------------------------------------------------------
(* DataConverterUtils: identifiers *)

\* model_name is accepted and not used
encode_id(mapped_data, model_name) ==
    IF Has(mapped_data, "id")
    THEN Put(mapped_data, "id", Str(b64encode(str_encode(Get(mapped_data, "id").s))))
    ELSE mapped_data

\* the unpacking `_, id_value = decoded_string.split(":")`
UnpackPair(parts) ==
    IF Len(parts) = 2 THEN Returned(parts[2]) ELSE Raised("ValueError", NoDetail)

decode_id(encoded_id) ==
    IF ~WellPadded(encoded_id) THEN Raised("binascii.Error", NoDetail)
    ELSE UnpackPair(split(bytes_decode(b64decode(encoded_id)), ":"))

----------------------------------------------------------------------------
(* DataConverterUtils.extract_records *)

\* a merge that drops the blob without reading it
MergeJsonExt_Dropped(record) == Pop(record, "jsonExt")

\* lines 26-28: `if record.get('jsonExt'):` pop, json.loads, update
MergeJsonExt(record) ==
    IF Truthy(GetOr(record, "jsonExt", NoneV))
    THEN Update(Pop(record, "jsonExt"), json_loads(Get(record, "jsonExt").s))
    ELSE record

\* the body of the loop over records
ExtractRecord(record) ==
    IF Has(record, "id")
    THEN LET d == decode_id(Get(record, "id").s)
         IN  IF d.raised # "none" THEN d
             ELSE Returned(MergeJsonExt(Put(record, "id", Str(d.value))))
    ELSE Returned(MergeJsonExt(record))

extract_records(res, query_get) ==
    LET edges == GetOr(GetOr(GetOr(res, "data", <<>>), query_get, <<>>), "edges", <<>>)
        records == [n \in 1..Len(edges) |-> ExtractRecord(GetOr(edges[n], "node", <<>>))]
        bad == {n \in 1..Len(edges) : records[n].raised # "none"}
    IN  IF bad = {} THEN Returned([n \in 1..Len(edges) |-> records[n].value])
        ELSE records[CHOOSE n \in bad : \A m \in bad : n <= m]

----------------------------------------------------------------------------
(* GQLPayloadTemplate *)

get_mutation(mutation_name, arguments_with_values, default_values, uuid4) ==
    [kind     |-> "mutation",
     name     |-> mutation_name,
     clientMutationId |-> uuid4,
     args     |-> arguments_with_values,
     defaults |-> Vals(default_values),
     fetched  |-> <<"clientMutationId", "internalId">>]

get_single_model_query(query_name, arguments_with_variables, fetched_fields) ==
    [kind     |-> "query",
     name     |-> query_name,
     clientMutationId |-> NoneS,
     args     |-> arguments_with_variables,
     defaults |-> <<>>,
     fetched  |-> fetched_fields]

----------------------------------------------------------------------------
(* GQLPayloadBuilder *)

\* __init__: the builder keeps the mapping tables and builds its OWN mapper
\* from them; meta_fields is not passed on
GQLPayloadBuilder(gql_mapper, idf) ==
    [fields_mapping |-> gql_mapper.fields_mapping,
     special_fields |-> gql_mapper.special_fields,
     default_values |-> gql_mapper.default_values,
     id_field       |-> idf,
     gql_mapper     |-> DataMapper(gql_mapper.fields_mapping, gql_mapper.special_fields,
                                   gql_mapper.default_values, <<>>)]

Arg(field, form, s, n) == [field |-> field, form |-> form, s |-> s, n |-> n]

\* str.replace('"', '\\"')
RECURSIVE EscapeQuotes(_)
EscapeQuotes(chars) ==
    IF chars = <<>> THEN <<>>
    ELSE (IF Head(chars) = "\"" THEN <<"\\", "\"">> ELSE <<Head(chars)>>)
         \o EscapeQuotes(Tail(chars))

\* the branch of create_arguments_with_values that serializes an `id`
IdArgument(field, value) ==
    IF isdigit(value.s) THEN Arg(field, "number", <<>>, int(value.s))
    ELSE Arg(field, "quoted", value.s, NoneI)

RECURSIVE ArgLoop(_, _, _)
ArgLoop(mapped_data, i, arguments) ==
    IF i > Len(mapped_data) THEN Returned(arguments)
    ELSE LET field == mapped_data[i][1]
             value == mapped_data[i][2]
         IN  IF field = "jsonExt" /\ value.t = "str"
             THEN ArgLoop(mapped_data, i + 1,
                          Append(arguments, Arg(field, "quoted", EscapeQuotes(value.s), NoneI)))
             ELSE IF field = "id"
             THEN IF value.t # "str"
                  THEN Raised("AttributeError", NoDetail)    \* list has no isdigit
                  ELSE ArgLoop(mapped_data, i + 1, Append(arguments, IdArgument(field, value)))
             ELSE IF value.t = "list"
             THEN ArgLoop(mapped_data, i + 1,
                          Append(arguments, Arg(field, "json", json_dumps_value(value), NoneI)))
             ELSE ArgLoop(mapped_data, i + 1,
                          Append(arguments, Arg(field, "quoted", value.s, NoneI)))

create_arguments_with_values(mapped_data) == ArgLoop(mapped_data, 1, <<>>)

\* the `if page_size:` / `if page:` lines of build_list_query
Pagination(page, page_size) ==
    LET firstArg == IF page_size # NoneI /\ page_size # 0
                    THEN <<Arg("first", "number", <<>>, page_size)>> ELSE <<>>
    IN  IF page # NoneI /\ page # 0
        THEN IF page_size = NoneI
             THEN Raised("TypeError", NoDetail)      \* int * None
             ELSE Returned(firstArg \o <<Arg("offset", "number", <<>>, page * page_size)>>)
        ELSE Returned(firstArg)

\* the `if ordering and mapped_data:` block of build_list_query
OrderBy(ordering, mapped_data) ==
    IF ordering # NoneS /\ mapped_data # <<>>
    THEN LET sort_field == Keys(mapped_data)[1]
         IN  <<Arg("orderBy", "list",
                   IF ordering = "descending" THEN <<"-", sort_field>> ELSE <<sort_field>>,
                   NoneI)>>
    ELSE <<>>

build_list_query(self, query_name, data, ordering, page, page_size) ==
    LET m == map_to_graphql(self.gql_mapper, data)
    IN  IF m.raised # "none" THEN m
        ELSE LET fetched_fields == Vals(self.fields_mapping) \o <<"jsonExt">>
                 mapped_data == Pop(m.value, "jsonExt")
                 a == create_arguments_with_values(mapped_data)
             IN  IF a.raised # "none" THEN a
                 ELSE LET p == Pagination(page, page_size)
                      IN  IF p.raised # "none" THEN p
                          ELSE Returned(get_single_model_query(
                                   query_name,
                                   a.value \o p.value \o OrderBy(ordering, mapped_data),
                                   fetched_fields))

\* fragment f'{id_field}: "{mapped_data["id"]}"'
IdFragment(idf, value) == Str(<<idf, ":", " ", "\"">> \o value.s \o <<"\"">>)

RECURSIVE DelKeys(_, _)
DelKeys(adapted_data, keys) ==
    IF keys = <<>> THEN adapted_data ELSE DelKeys(Pop(adapted_data, Head(keys)), Tail(keys))

fill_payload_with_defaults(self, mapped_data) ==
    LET a1 == Update(self.default_values, mapped_data)
        a2 == IF ~Has(a1, self.id_field) /\ Has(mapped_data, "id")
              THEN Put(a1, self.id_field, IdFragment(self.id_field, Get(mapped_data, "id")))
              ELSE a1
    IN  DelKeys(a2, Keys(mapped_data))

build_mutation(self, data_to_write, mutation_name, use_defaults, uuid4) ==
    LET m == map_to_graphql(self.gql_mapper, data_to_write)
    IN  IF m.raised # "none" THEN m
        ELSE LET default_data_values ==
                     IF use_defaults THEN fill_payload_with_defaults(self, m.value) ELSE <<>>
                 a == create_arguments_with_values(m.value)
             IN  IF a.raised # "none" THEN a
                 ELSE Returned(get_mutation(mutation_name, a.value, default_data_values, uuid4))

\* fetched_fields: <<>> stands for None; otherwise a list of field names
build_record_query(self, query_name, data, after_cursor, fetched_fields, first) ==
    LET m == map_to_graphql(self.gql_mapper, data)
    IN  IF m.raised # "none" THEN m
        ELSE LET m1 == IF ~Has(m.value, self.id_field) /\ Has(m.value, "id")
                       THEN Put(Pop(m.value, "id"), self.id_field, Get(m.value, "id"))
                       ELSE m.value
                 ff == IF fetched_fields = <<>>
                       THEN Vals(SelectSeq(self.fields_mapping, LAMBDA e : e[1] # "uuid"))
                            \o <<"jsonExt">>
                       ELSE fetched_fields
                 mapped_data == Pop(m1, "jsonExt")
                 a == create_arguments_with_values(mapped_data)
             IN  IF a.raised # "none" THEN a
                 ELSE LET a1 == IF first # NoneI /\ first # 0
                                THEN a.value \o <<Arg("first", "number", <<>>, first)>>
                                ELSE a.value
                          a2 == IF after_cursor # NoneS
                                THEN <<Arg("after", "raw", <<after_cursor>>, NoneI)>>
                                ELSE a1
                      IN  Returned(get_single_model_query(query_name, a2, ff))

----------------------------------------------------------------------------
(* Configurations and inputs *)

FieldsMappingA == << <<"name", "firstName">>, <<"ID", "id">> >>
FieldsMappingB == << <<"name", "firstName">>, <<"uuid", "uuid">> >>
SpecialFields == <<"note">>
DefaultValues == << <<"genderId", Str(<<"genderId", ":", " ", "\"", "M", "\"">>)>> >>

\* a mapper with the default meta fields, one with caller-supplied meta
\* fields, and one whose mapping table has an (external) uuid column
Mappers ==
    { DataMapper(FieldsMappingA, SpecialFields, DefaultValues, <<>>),
      DataMapper(FieldsMappingA, SpecialFields, DefaultValues, <<"code">>),
      DataMapper(FieldsMappingB, SpecialFields, DefaultValues, <<>>) }

IdFields == {"id", "chfId"}

FieldNames == {"name", "ID", "note", "uuid", "uuids", "code"}

\* scalar fields carry strings (all digits or not), the bulk field a list
ValuesOf(k) == IF k = "uuids" THEN {List(<<"a", "b">>)} ELSE {Str(<<"5">>), Str(<<"J", "o">>)}

Values == UNION {ValuesOf(k) : k \in FieldNames}

\* request records: dicts with at most n distinct keys
RecordsUpTo(n) ==
    UNION { { d \in [1..m -> FieldNames \X Values] :
                /\ \A i \in 1..m : d[i][2] \in ValuesOf(d[i][1])
                /\ \A i, j \in 1..m : i # j => d[i][1] # d[j][1] } : m \in 0..n }

Records == RecordsUpTo(MaxKeys)

Orderings == {NoneS, "ascending", "descending"}
\* unset, zero and positive
Pages == {NoneI, 0, 1, MaxPage}
PageSizes == {NoneI, 0, MaxPageSize}
Cursors == {NoneS, "YXJyYXk="}
FetchedFieldsArgs == {<<>>, <<"firstName">>}
Uuids == {"u1"}
QueryName == "insurees"
MutationName == "createInsuree"

NoCall == [op |-> "none", data |-> <<>>, ordering |-> NoneS, page |-> NoneI,
           page_size |-> NoneI, after_cursor |-> NoneS, fetched_fields |-> <<>>,
           first |-> NoneI, use_defaults |-> FALSE, only_first |-> FALSE,
           skip_mapping |-> FALSE, model_name |-> <<>>, raw_id |-> <<>>]

NoResult == Returned(<<>>)

NoLogEntry == [found |-> FALSE, status |-> NoneS, error |-> NoneS]

NoDocument == [kind |-> "none", name |-> NoneS, clientMutationId |-> NoneS,
               args |-> <<>>, defaults |-> <<>>, fetched |-> <<>>]

----------------------------------------------------------------------------
(* The payload builder on its own: every action is one call of a builder   *)
(* method on a builder constructed from `mapper` and `id_field`.           *)

Builder == GQLPayloadBuilder(mapper, id_field)

InitBuilder ==
    /\ mapper \in Mappers
    /\ id_field \in IdFields
    /\ pc = "idle"
    /\ call = NoCall
    /\ query = NoneS
    /\ envelope = NoneS
    /\ log = NoLogEntry
    /\ result = NoResult
    /\ events = <<>>

BuildListQuery ==
    \E data \in Records, ordering \in Orderings, page \in Pages, page_size \in PageSizes :
        /\ pc = "idle"
        /\ call' = [NoCall EXCEPT !.op = "build_list_query", !.data = data,
                                  !.ordering = ordering, !.page = page,
                                  !.page_size = page_size]
        /\ result' = build_list_query(Builder, QueryName, data, ordering, page, page_size)
        /\ pc' = "built"
        /\ UNCHANGED <<mapper, id_field, query, envelope, log, events>>

BuildRecordQuery ==
    \E data \in Records, after_cursor \in Cursors, fetched_fields \in FetchedFieldsArgs,
       first \in PageSizes :
        /\ pc = "idle"
        /\ call' = [NoCall EXCEPT !.op = "build_record_query", !.data = data,
                                  !.after_cursor = after_cursor,
                                  !.fetched_fields = fetched_fields, !.first = first]
        /\ result' = build_record_query(Builder, QueryName, data, after_cursor,
                                        fetched_fields, first)
        /\ pc' = "built"
        /\ UNCHANGED <<mapper, id_field, query, envelope, log, events>>

BuildMutation ==
    \E data \in Records, use_defaults \in BOOLEAN, uuid4 \in Uuids :
        /\ pc = "idle"
        /\ call' = [NoCall EXCEPT !.op = "build_mutation", !.data = data,
                                  !.use_defaults = use_defaults]
        /\ result' = build_mutation(Builder, data, MutationName, use_defaults, uuid4)
        /\ pc' = "built"
        /\ UNCHANGED <<mapper, id_field, query, envelope, log, events>>

\* the caller takes the document (or the exception); the builder keeps no state
BuilderReturn ==
    /\ pc = "built"
    /\ pc' = "idle"
    /\ call' = NoCall
    /\ result' = NoResult
    /\ UNCHANGED <<mapper, id_field, query, envelope, log, events>>

NextBuilder == BuildListQuery \/ BuildRecordQuery \/ BuildMutation \/ BuilderReturn

SpecBuilder == InitBuilder /\ [][NextBuilder]_vars

----------------------------------------------------------------------------
(* Reading a built document *)

ArgsNamed(doc, field) == SelectSeq(doc.args, LAMBDA a : a.field = field)

HasArg(doc, field) == ArgsNamed(doc, field) # <<>>

Built(o) == pc = "built" /\ call.op = o

\* field names the configured mapper (the one the manager was given) accepts
ConfiguredUnion ==
    Range(Keys(mapper.fields_mapping)) \cup Range(mapper.special_fields)
        \cup Range(mapper.meta_fields)

KeysWithin(d, S) == \A i \in 1..Len(d) : d[i][1] \in S

----------------------------------------------------------------------------
(* Claims about the payload builder (SpecBuilder) *)

\* C4: in build_list_query, build_record_query and build_mutation the forward
\* mapping succeeds for every record whose keys all lie in the union of the
\* mapped, special and meta fields of the configured DataMapper, and fails for
\* every other record with an error listing the mapped and special field
\* names and without a mapped result.
C4_MappingDecidedByConfiguredUnion ==
    pc = "built" =>
        IF KeysWithin(call.data, ConfiguredUnion)
        THEN result.raised # "MutationError"
        ELSE /\ result.raised = "MutationError"
             /\ result.detail.allowed = Keys(mapper.fields_mapping)
             /\ result.detail.special = mapper.special_fields
             /\ result.value = <<>>

\* C6: build_list_query appends first:<pageSize> whenever pageSize is given
\* and offset:<page * pageSize> whenever page is given (page 0 and page
\* without pageSize included); with neither given there is no pagination
\* argument.
C6_PaginationArguments ==
    (Built("build_list_query") /\ result.raised \notin {"MutationError", "AttributeError"}) =>
        /\ call.page_size # NoneI =>
              /\ result.raised = "none"
              /\ ArgsNamed(result.value, "first")
                    = <<Arg("first", "number", <<>>, call.page_size)>>
        /\ call.page # NoneI =>
              /\ result.raised = "none"
              /\ Len(ArgsNamed(result.value, "offset")) = 1
              /\ call.page_size # NoneI =>
                    ArgsNamed(result.value, "offset")[1].n = call.page * call.page_size
        /\ (call.page = NoneI /\ call.page_size = NoneI) =>
              /\ result.raised = "none"
              /\ ~HasArg(result.value, "first")
              /\ ~HasArg(result.value, "offset")

\* internal names of the mapped fields carried by the request
MappedNamesIn(d) ==
    {Get(mapper.fields_mapping, d[i][1]) :
        i \in {j \in 1..Len(d) : Has(mapper.fields_mapping, d[j][1])}}

\* C7: in build_list_query the orderBy field is the internal name of the first
\* mapped field of the request, never a meta field nor a special field / the
\* extension blob; ascending gives the bare name, descending the name
\* prefixed with "-"; there is no orderBy when ordering is unset or the
\* request carries no mapped field.
C7_OrderByMappedFieldOnly ==
    (Built("build_list_query") /\ result.raised = "none") =>
        LET ob == ArgsNamed(result.value, "orderBy")
            named == IF ob = <<>> THEN NoneS ELSE ob[1].s[Len(ob[1].s)]
        IN  /\ (call.ordering = NoneS \/ MappedNamesIn(call.data) = {}) => ob = <<>>
            /\ ob # <<>> =>
                  /\ named \in MappedNamesIn(call.data)
                  /\ named \notin Range(mapper.special_fields) \cup {"jsonExt"}
                  /\ ob[1].s = IF call.ordering = "descending"
                               THEN <<"-", named>> ELSE <<named>>

\* C9: build_list_query, build_record_query and build_mutation serialize the
\* identifier alike, whatever identifier-field name is configured: an
\* all-digit value as an unquoted number, any other value as a quoted string.
C9_IdentifierSerializedAlike ==
    (/\ pc = "built"
     /\ result.raised = "none"
     /\ call.after_cursor = NoneS
     /\ Has(call.data, "ID")
     /\ Has(mapper.fields_mapping, "ID")) =>
        LET v == Get(call.data, "ID")
            ids == SelectSeq(result.value.args, LAMBDA a : a.field \in {"id", id_field})
        IN  /\ Len(ids) = 1
            /\ IF isdigit(v.s)
               THEN ids[1].form = "number" /\ ids[1].n = int(v.s)
               ELSE ids[1].form = "quoted" /\ ids[1].s = v.s

----------------------------------------------------------------------------
(* The DataMapper on its own: a list of request records is mapped forward  *)
(* record by record, then the list of query records is mapped back.        *)

SecondRecords == RecordsUpTo(1)

RecordLists == {<<r>> : r \in Records} \cup {<<r, q>> : r \in Records, q \in SecondRecords}

InitMapper ==
    /\ mapper \in Mappers
    /\ id_field = "id"
    /\ pc = "idle"
    /\ call = NoCall
    /\ query = <<>>
    /\ envelope = NoneS
    /\ log = NoLogEntry
    /\ result = NoResult
    /\ events = <<>>

MapToGraphql ==
    \E rs \in RecordLists :
        LET ms == [n \in 1..Len(rs) |-> map_to_graphql(mapper, rs[n])]
            bad == {n \in 1..Len(rs) : ms[n].raised # "none"}
        IN  /\ pc = "idle"
            /\ call' = [NoCall EXCEPT !.op = "map_to_graphql", !.data = rs]
            /\ IF bad = {}
               THEN /\ query' = [n \in 1..Len(rs) |-> ms[n].value]
                    /\ result' = NoResult
                    /\ pc' = "mapped"
               ELSE /\ query' = <<>>
                    /\ result' = ms[CHOOSE n \in bad : \A m \in bad : n <= m]
                    /\ pc' = "raised"
            /\ UNCHANGED <<mapper, id_field, envelope, log, events>>

MapToRegistry ==
    /\ pc = "mapped"
    /\ result' = Returned(map_to_registry(mapper, query))
    /\ pc' = "done"
    /\ UNCHANGED <<mapper, id_field, call, query, envelope, log, events>>

MapperReturn ==
    /\ pc \in {"done", "raised"}
    /\ pc' = "idle"
    /\ call' = NoCall
    /\ query' = <<>>
    /\ result' = NoResult
    /\ UNCHANGED <<mapper, id_field, envelope, log, events>>

NextMapper == MapToGraphql \/ MapToRegistry \/ MapperReturn

SpecMapper == InitMapper /\ [][NextMapper]_vars

MappedOrMeta == Range(Keys(mapper.fields_mapping)) \cup Range(mapper.meta_fields)

\* the entries of r that come back: mapped keys whose internal name is not
\* the name of a meta field
SurvivingEntries(r) ==
    SelectSeq(r, LAMBDA e : /\ Has(mapper.fields_mapping, e[1])
                            /\ ~InList(mapper.meta_fields, Get(mapper.fields_mapping, e[1])))

RoundTripDone ==
    /\ pc = "done"
    /\ \A n \in 1..Len(call.data) : KeysWithin(call.data[n], MappedOrMeta)

\* C5 (as claimed): for records whose keys are all mapped or meta fields,
\* map_to_registry(map_to_graphql(r)) gives back r, meta keys included.
C5_RoundTripIdentity == RoundTripDone => result.value = call.data

\* C5 (amended): for records whose keys are all mapped or meta fields, the
\* round trip gives back, in input order, each record restricted to its
\* mapped keys whose internal name is not a meta-field name, under their
\* external names and with their original values; meta keys are dropped.
C5_RoundTripMappedOnly ==
    RoundTripDone =>
        result.value = [n \in 1..Len(call.data) |-> SurvivingEntries(call.data[n])]

\* two records, the first with a mapped and a meta key, went round
C5_Witness ==
    /\ RoundTripDone
    /\ Len(call.data) = 2
    /\ Has(call.data[1], "name")
    /\ Has(call.data[1], "uuids")
    /\ result.value[1] = <<<<"name", Get(call.data[1], "name")>>>>
    /\ result.value[2] # result.value[1]

----------------------------------------------------------------------------
(* Identifiers on their own: an identifier is encoded, then decoded.       *)

TypeTags == {<<"T">>, <<"I", "n">>}

RawChars == {"1", "a", ":"}

\* raw ids start with a letter or digit and may contain colons
RawIds == UNION {{r \in [1..n -> RawChars] : r[1] # ":"} : n \in 1..MaxRawLen}

InitIds ==
    /\ mapper = DataMapper(FieldsMappingA, SpecialFields, DefaultValues, <<>>)
    /\ id_field = "id"
    /\ pc = "idle"
    /\ call = NoCall
    /\ query = <<>>
    /\ envelope = NoneS
    /\ log = NoLogEntry
    /\ result = NoResult
    /\ events = <<>>

\* the caller hands over either the pair "<typeTag>:<rawId>" or the bare
\* raw id, with the type tag as model_name
EncodeId ==
    \E tag \in TypeTags, raw \in RawIds, as_pair \in BOOLEAN :
        LET id_value == IF as_pair THEN tag \o <<":">> \o raw ELSE raw
            mapped_data == << <<"id", Str(id_value)>> >>
        IN  /\ pc = "idle"
            /\ call' = [NoCall EXCEPT !.op = "encode_id", !.data = mapped_data,
                                      !.model_name = tag, !.raw_id = raw]
            /\ query' = encode_id(mapped_data, tag)
            /\ pc' = "encoded"
            /\ UNCHANGED <<mapper, id_field, envelope, log, result, events>>

DecodeId ==
    /\ pc = "encoded"
    /\ result' = decode_id(Get(query, "id").s)
    /\ pc' = "decoded"
    /\ UNCHANGED <<mapper, id_field, call, query, envelope, log, events>>

IdReturn ==
    /\ pc = "decoded"
    /\ pc' = "idle"
    /\ call' = NoCall
    /\ query' = <<>>
    /\ result' = NoResult
    /\ UNCHANGED <<mapper, id_field, envelope, log, events>>

NextIds == EncodeId \/ DecodeId \/ IdReturn

SpecIds == InitIds /\ [][NextIds]_vars

\* C8: for every well-formed pair "<typeTag>:<rawId>" (a raw id with a colon
\* in it included) decode_id(encode_id(pair)) is the raw id.
C8_DecodeInvertsEncode ==
    (/\ pc = "decoded"
     /\ Get(call.data, "id").s = call.model_name \o <<":">> \o call.raw_id) =>
        /\ result.raised = "none"
        /\ result.value = call.raw_id

----------------------------------------------------------------------------
(* Response envelopes of a connection query *)

\* objects an extension blob can hold
BlobObjects ==
    { << <<"note", Str(<<"h", "i">>)>> >>,
      << <<"note", Str(<<"h", "i">>)>>, <<"firstName", Str(<<"X">>)>> >>,
      << <<"tags", List(<<"a", "b">>)>>, <<"jsonExt", Str(<<"x">>)>> >> }

\* jsonExt of a node: key absent, null, empty string, or a serialized object
NoKey == [t |-> "absent", s |-> <<>>]

JsonExtValues == {NoKey, NoneV, Str(<<>>)} \cup {Str(json_dumps(b)) : b \in BlobObjects}

GoodIds == {Str(b64encode(str_encode(<<"I", "n", ":", "1">>)))}

\* an id the backend did not encode
BadIds == {Str(<<"5">>)}

Entry(k, v) == IF v = NoKey THEN <<>> ELSE << <<k, v>> >>

NodesWith(ids) ==
    { Entry("id", i) \o Entry("firstName", Str(<<"J", "o">>)) \o Entry("jsonExt", j) :
        i \in {NoKey} \cup ids, j \in JsonExtValues }

\* an edge carries a cursor and (normally) a node
EdgesWith(ids) ==
    { << <<"cursor", "c">> >> } \cup
    { << <<"cursor", "c">>, <<"node", n>> >> : n \in NodesWith(ids) }

EdgeListsWith(ids, max) == UNION {[1..n -> EdgesWith(ids)] : n \in 0..max}

Connection(edges, total, more) ==
    << <<"totalCount", total>>,
       <<"pageInfo", << <<"hasNextPage", more>>, <<"endCursor", "c">> >> >>,
       <<"edges", edges>> >>

ReadEnvelopesWith(ids, max) ==
    { <<>>, << <<"data", <<>> >> >> } \cup
    { << <<"data", << <<QueryName, Connection(e, Len(e), Len(e) = max)>> >> >> >> :
        e \in EdgeListsWith(ids, max) }

----------------------------------------------------------------------------
(* The response decoder on its own *)

InitExtract ==
    /\ mapper = DataMapper(FieldsMappingA, SpecialFields, DefaultValues, <<>>)
    /\ id_field = "id"
    /\ pc = "idle"
    /\ call = NoCall
    /\ query = <<>>
    /\ envelope = <<>>
    /\ log = NoLogEntry
    /\ result = NoResult
    /\ events = <<>>

ExtractRecords ==
    \E env \in ReadEnvelopesWith(GoodIds \cup BadIds, MaxEdges) :
        /\ pc = "idle"
        /\ call' = [NoCall EXCEPT !.op = "extract_records"]
        /\ envelope' = env
        /\ result' = extract_records(env, QueryName)
        /\ pc' = "extracted"
        /\ UNCHANGED <<mapper, id_field, query, log, events>>

ExtractReturn ==
    /\ pc = "extracted"
    /\ pc' = "idle"
    /\ call' = NoCall
    /\ envelope' = <<>>
    /\ result' = NoResult
    /\ UNCHANGED <<mapper, id_field, query, log, events>>

NextExtract == ExtractRecords \/ ExtractReturn

SpecExtract == InitExtract /\ [][NextExtract]_vars

EnvelopeEdges == GetOr(GetOr(GetOr(envelope, "data", <<>>), QueryName, <<>>), "edges", <<>>)

NodeOf(n) == GetOr(EnvelopeEdges[n], "node", <<>>)

IdsWellFormed ==
    \A n \in 1..Len(EnvelopeEdges) : Has(NodeOf(n), "id") => Get(NodeOf(n), "id") \in GoodIds

BlankBlob(node) == ~Has(node, "jsonExt") \/ Get(node, "jsonExt") \in {NoneV, Str(<<>>)}

\* the object a non-blank blob was serialized from
BlobObjectOf(node) == CHOOSE b \in BlobObjects : json_dumps(b) = Get(node, "jsonExt").s

\* the node's own fields, jsonExt aside, with the identifier decoded
PlainFields(node) ==
    LET n == Pop(node, "jsonExt")
    IN  IF Has(n, "id") THEN Put(n, "id", Str(<<"1">>)) ELSE n

\* C10 (as claimed): a blank or absent blob merges nothing and raises nothing,
\* a non-blank blob has all its keys merged, and in both cases the final
\* record has no jsonExt key; records follow the order of the edges.
C10_BlobKeyAlwaysAbsent ==
    (pc = "extracted" /\ IdsWellFormed) =>
        /\ result.raised = "none"
        /\ Len(result.value) = Len(EnvelopeEdges)
        /\ \A n \in 1..Len(EnvelopeEdges) :
              /\ ~Has(result.value[n], "jsonExt")
              /\ IF BlankBlob(NodeOf(n))
                 THEN result.value[n] = PlainFields(NodeOf(n))
                 ELSE \A i \in 1..Len(BlobObjectOf(NodeOf(n))) :
                         LET e == BlobObjectOf(NodeOf(n))[i]
                         IN  Has(result.value[n], e[1]) /\ Get(result.value[n], e[1]) = e[2]

\* C10 (amended): a blank or absent blob merges nothing and raises nothing,
\* and the record is the node with its id decoded (a jsonExt key present with
\* a null or empty value stays in the record); a non-blank blob is removed
\* and every key of its object is in the record with the object's value, the
\* other node fields being kept (jsonExt is then in the record only if the
\* object itself has such a key); records follow the order of the edges.
C10_BlobMergedWhenNonBlank ==
    (pc = "extracted" /\ IdsWellFormed) =>
        /\ result.raised = "none"
        /\ Len(result.value) = Len(EnvelopeEdges)
        /\ \A n \in 1..Len(EnvelopeEdges) :
              IF BlankBlob(NodeOf(n))
              THEN result.value[n] =
                       IF Has(NodeOf(n), "jsonExt")
                       THEN PlainFields(NodeOf(n)) \o <<<<"jsonExt", Get(NodeOf(n), "jsonExt")>>>>
                       ELSE PlainFields(NodeOf(n))
              ELSE LET b == BlobObjectOf(NodeOf(n))
                   IN  /\ \A i \in 1..Len(b) :
                             /\ Has(result.value[n], b[i][1])
                             /\ Get(result.value[n], b[i][1]) = b[i][2]
                       /\ \A i \in 1..Len(PlainFields(NodeOf(n))) :
                             LET e == PlainFields(NodeOf(n))[i]
                             IN  Has(result.value[n], e[1])
                                 /\ (~Has(b, e[1]) => Get(result.value[n], e[1]) = e[2])
                       /\ Has(result.value[n], "jsonExt") <=> Has(b, "jsonExt")
                       /\ Range(Keys(result.value[n]))
                             = Range(Keys(PlainFields(NodeOf(n)))) \cup Range(Keys(b))

\* two edges were decoded: the first with a non-blank blob whose keys are now
\* in the record, the second with a null blob that is still in the record
C10_Witness ==
    /\ pc = "extracted"
    /\ IdsWellFormed
    /\ Len(EnvelopeEdges) = 2
    /\ Has(NodeOf(1), "id")
    /\ ~BlankBlob(NodeOf(1))
    /\ Has(result.value[1], "note")
    /\ ~Has(result.value[1], "jsonExt")
    /\ Has(NodeOf(2), "jsonExt")
    /\ Get(NodeOf(2), "jsonExt") = NoneV
    /\ Has(result.value[2], "jsonExt")

----------------------------------------------------------------------------
(* RegistryGQLManager *)

RaisedWith(kind, text) == Raised(kind, [NoDetail EXCEPT !.text = text])

ActionResult(data) == [success |-> 1, data |-> data]

\* a manager that sends the document whatever the builder did
AfterBuild_AlwaysExecute(built) == "execute"

\* the builder's exception leaves the call before execute_query is reached
AfterBuild(built) == IF built.raised # "none" THEN "raised" ELSE "execute"

\* lines 278-286: top-level errors, then data.<mutation>.clientMutationId
CheckMutationResult(mutation_result, mutation_name) ==
    LET errors == GetOr(mutation_result, "errors", <<>>)
        client_mutation_id ==
            GetOr(GetOr(GetOr(mutation_result, "data", <<>>), mutation_name, <<>>),
                  "clientMutationId", NoneS)
    IN  IF errors # <<>> THEN RaisedWith("MutationError", errors)
        ELSE IF client_mutation_id \in {NoneS, ""}
        THEN RaisedWith("MutationError", <<"Invalid mutation data">>)
        ELSE Returned(client_mutation_id)

\* a check that never looks at the status
CheckMutationLog_StatusIgnored(mutation_log) == Returned(ActionResult(NoneV))

\* lines 289-291; .first() gives None when no entry has the id
CheckMutationLog(mutation_log) ==
    IF ~mutation_log.found THEN Raised("AttributeError", NoDetail)
    ELSE IF mutation_log.status = "ERROR"
    THEN RaisedWith("MutationError", <<mutation_log.error>>)
    ELSE Returned(ActionResult(NoneV))

\* result['data'][query_name]: KeyError when a key is missing
Payload(res, query_name) ==
    IF Has(res, "data") /\ Has(Get(res, "data"), query_name)
    THEN Returned(Get(Get(res, "data"), query_name))
    ELSE Raised("KeyError", NoDetail)

\* lines 312-320
ListResult(self_mapper, res, query_name) ==
    LET x == extract_records(res, query_name)
    IN  IF x.raised # "none" THEN x
        ELSE LET extracted_records == map_to_registry(self_mapper, x.value)
                 p == Payload(res, query_name)
             IN  IF p.raised # "none" THEN p
                 ELSE Returned(ActionResult(
                          [entries |-> extracted_records,
                           count |-> Get(p.value, "totalCount"),
                           has_next_page |-> Get(Get(p.value, "pageInfo"), "hasNextPage")]))

\* lines 336-341
RecordResult(self_mapper, res, query_name, only_first, skip_mapping) ==
    LET x == extract_records(res, query_name)
    IN  IF x.raised # "none" THEN x
        ELSE LET extracted_records == IF skip_mapping THEN x.value
                                      ELSE map_to_registry(self_mapper, x.value)
             IN  IF only_first /\ Len(extracted_records) > 0
                 THEN Returned(ActionResult(extracted_records[1]))
                 ELSE Returned(ActionResult(extracted_records))

----------------------------------------------------------------------------
(* What the collaborators can answer *)

\* envelopes of a mutation: errors; nothing; data without the mutation;
\* a payload without / with an empty / with a clientMutationId
MutationEnvelopes ==
    { << <<"errors", <<"boom">>>>, <<"data", <<>> >> >>,
      <<>>,
      << <<"data", <<>> >> >>,
      << <<"data", << <<MutationName, << <<"internalId", "7">> >> >> >> >> >>,
      << <<"data", << <<MutationName, << <<"clientMutationId", "">> >> >> >> >> >>,
      << <<"errors", <<>> >>,
         <<"data", << <<MutationName, << <<"clientMutationId", "u1">> >> >> >> >> >>,
      << <<"data", << <<MutationName,
                        << <<"clientMutationId", "u1">>, <<"internalId", "7">> >> >> >> >> >> }

\* MutationLog rows for an id: none, or one in status RECEIVED, ERROR, SUCCESS
LogEntries ==
    { NoLogEntry,
      [found |-> TRUE, status |-> "RECEIVED", error |-> NoneS],
      [found |-> TRUE, status |-> "ERROR", error |-> "denied"],
      [found |-> TRUE, status |-> "SUCCESS", error |-> NoneS] }

\* request records handed to the manager
CallRecords ==
    { <<>>,
      << <<"name", Str(<<"J", "o">>)>> >>,
      << <<"ID", Str(<<"5">>)>> >>,
      << <<"note", Str(<<"J", "o">>)>> >>,
      << <<"uuids", List(<<"a", "b">>)>> >>,
      << <<"code", Str(<<"5">>)>> >>,
      << <<"name", Str(<<"J", "o">>)>>, <<"ID", Str(<<"5">>)>> >> }

\* edges of the envelopes the manager reads: a full node, and a node whose
\* id is not an encoded pair
ManagerEdges ==
    { << <<"cursor", "c">>,
         <<"node", << <<"id", CHOOSE i \in GoodIds : TRUE>>,
                      <<"firstName", Str(<<"J", "o">>)>>,
                      <<"jsonExt", Str(json_dumps(<< <<"note", Str(<<"h", "i">>)>> >>))>> >> >> >>,
      << <<"cursor", "c">>,
         <<"node", << <<"id", CHOOSE i \in BadIds : TRUE>> >> >> >> }

ManagerReadEnvelopes ==
    { <<>> } \cup
    { << <<"data", << <<QueryName, Connection(e, Len(e), Len(e) = MaxEdges)>> >> >> >> :
        e \in UNION {[1..n -> ManagerEdges] : n \in 0..MaxEdges} }

----------------------------------------------------------------------------
(* The manager: one call at a time, split at its blocking calls            *)
(* (client.execute_query, then the MutationLog lookup).                    *)

InitManager ==
    /\ mapper \in Mappers
    /\ id_field \in IdFields
    /\ pc = "idle"
    /\ call = NoCall
    /\ query = NoDocument
    /\ envelope = <<>>
    /\ log = NoLogEntry
    /\ result = NoResult
    /\ events = <<>>

\* the call up to the builder's return
Start(c, built) ==
    /\ pc = "idle"
    /\ call' = c
    /\ events' = <<>>
    /\ envelope' = <<>>
    /\ log' = NoLogEntry
    /\ pc' = AfterBuild(built)
    /\ query' = IF built.raised # "none" THEN NoDocument ELSE built.value
    /\ result' = IF built.raised # "none" THEN built ELSE NoResult
    /\ UNCHANGED <<mapper, id_field>>

mutate_registry_record ==
    \E data \in CallRecords, use_defaults \in BOOLEAN, uuid4 \in Uuids :
        Start([NoCall EXCEPT !.op = "mutate_registry_record", !.data = data,
                             !.use_defaults = use_defaults],
              build_mutation(Builder, data, MutationName, use_defaults, uuid4))

retrieve_filtered_records ==
    \E data \in CallRecords, ordering \in Orderings, page \in Pages, page_size \in PageSizes :
        Start([NoCall EXCEPT !.op = "retrieve_filtered_records", !.data = data,
                             !.ordering = ordering, !.page = page, !.page_size = page_size],
              build_list_query(Builder, QueryName, data, ordering, page, page_size))

get_record ==
    \E data \in CallRecords, fetched_fields \in FetchedFieldsArgs, only_first \in BOOLEAN,
       after_cursor \in Cursors, first \in {NoneI, MaxPageSize}, skip_mapping \in BOOLEAN :
        Start([NoCall EXCEPT !.op = "get_record", !.data = data,
                             !.fetched_fields = fetched_fields, !.only_first = only_first,
                             !.after_cursor = after_cursor, !.first = first,
                             !.skip_mapping = skip_mapping],
              build_record_query(Builder, QueryName, data, after_cursor, fetched_fields, first))

\* the rest of the call once execute_query has answered
Finish(r) ==
    /\ result' = r
    /\ pc' = IF r.raised # "none" THEN "raised" ELSE "returned"

ExecuteMutation ==
    \E mutation_result \in MutationEnvelopes :
        LET c == CheckMutationResult(mutation_result, MutationName)
        IN  /\ pc = "execute"
            /\ call.op = "mutate_registry_record"
            /\ events' = Append(events, "execute_query")
            /\ envelope' = mutation_result
            /\ IF c.raised # "none"
               THEN Finish(c)
               ELSE pc' = "lookup" /\ result' = NoResult
            /\ UNCHANGED <<mapper, id_field, call, query, log>>

LookupMutationLog ==
    \E mutation_log \in LogEntries :
        /\ pc = "lookup"
        /\ events' = Append(events, "mutation_log")
        /\ log' = mutation_log
        /\ Finish(CheckMutationLog(mutation_log))
        /\ UNCHANGED <<mapper, id_field, call, query, envelope>>

ExecuteList ==
    \E res \in ManagerReadEnvelopes :
        /\ pc = "execute"
        /\ call.op = "retrieve_filtered_records"
        /\ events' = Append(events, "execute_query")
        /\ envelope' = res
        /\ Finish(ListResult(mapper, res, QueryName))
        /\ UNCHANGED <<mapper, id_field, call, query, log>>

ExecuteGet ==
    \E res \in ManagerReadEnvelopes :
        /\ pc = "execute"
        /\ call.op = "get_record"
        /\ events' = Append(events, "execute_query")
        /\ envelope' = res
        /\ Finish(RecordResult(mapper, res, QueryName, call.only_first, call.skip_mapping))
        /\ UNCHANGED <<mapper, id_field, call, query, log>>

\* the call is over; the manager keeps nothing of it
ManagerReturn ==
    /\ pc \in {"returned", "raised"}
    /\ pc' = "idle"
    /\ call' = NoCall
    /\ query' = NoDocument
    /\ envelope' = <<>>
    /\ log' = NoLogEntry
    /\ result' = NoResult
    /\ events' = <<>>
    /\ UNCHANGED <<mapper, id_field>>

NextManager ==
    \/ mutate_registry_record
    \/ retrieve_filtered_records
    \/ get_record
    \/ ExecuteMutation
    \/ LookupMutationLog
    \/ ExecuteList
    \/ ExecuteGet
    \/ ManagerReturn

SpecManager == InitManager /\ [][NextManager]_vars

----------------------------------------------------------------------------
(* Claims about the manager (SpecManager) *)

Executed == InList(events, "execute_query")

LookedUp == InList(events, "mutation_log")

MutationOver == call.op = "mutate_registry_record" /\ pc \in {"returned", "raised"}

EnvelopeErrors == GetOr(envelope, "errors", <<>>)

EnvelopeMutationId ==
    GetOr(GetOr(GetOr(envelope, "data", <<>>), MutationName, <<>>), "clientMutationId", NoneS)

\* C1: mutate_registry_record returns success=1 only if the envelope carried
\* a clientMutationId and the log entry found for it has status SUCCESS.
C1_SuccessOnlyOnLoggedSuccess ==
    (call.op = "mutate_registry_record" /\ pc = "returned") =>
        /\ EnvelopeMutationId \notin {NoneS, ""}
        /\ log.found
        /\ log.status = "SUCCESS"

\* C2: mutate_registry_record raises MutationError (1) carrying the top-level
\* errors of the envelope, without a log lookup; (2) when there are no errors
\* and no data.<mutation>.clientMutationId, without a log lookup; (3) carrying
\* the log's error when the entry found has status ERROR.  When the entry
\* found has status SUCCESS it returns ActionResult(success=1, data=None).
C2_MutationOutcomes ==
    (MutationOver /\ Executed) =>
        /\ EnvelopeErrors # <<>> =>
              /\ pc = "raised"
              /\ result.raised = "MutationError"
              /\ result.detail.text = EnvelopeErrors
              /\ ~LookedUp
        /\ (EnvelopeErrors = <<>> /\ EnvelopeMutationId \in {NoneS, ""}) =>
              /\ pc = "raised"
              /\ result.raised = "MutationError"
              /\ ~LookedUp
        /\ (LookedUp /\ log.found /\ log.status = "ERROR") =>
              /\ pc = "raised"
              /\ result.raised = "MutationError"
              /\ result.detail.text = <<log.error>>
        /\ (LookedUp /\ log.found /\ log.status = "SUCCESS") =>
              /\ pc = "returned"
              /\ result = Returned([success |-> 1, data |-> NoneV])

\* a mutation whose log entry has status ERROR has raised the log's error
C2_Witness ==
    /\ MutationOver
    /\ events = <<"execute_query", "mutation_log">>
    /\ EnvelopeErrors = <<>>
    /\ log.status = "ERROR"
    /\ result.raised = "MutationError"
    /\ result.detail.text = <<"denied">>

\* C3: within a call the collaborators are invoked in the order execute_query,
\* then (mutations only) the log lookup, each at most once; when mapping or
\* document building failed neither is invoked; the lookup never precedes
\* the return of execute_query; read operations never look the log up.
C3_BuildExecuteLookupOrder ==
    /\ events \in {<<>>, <<"execute_query">>, <<"execute_query", "mutation_log">>}
    /\ (pc = "raised" /\ query = NoDocument) => events = <<>>
    /\ query = NoDocument => events = <<>>
    /\ pc = "execute" => (events = <<>> /\ query # NoDocument)
    /\ pc = "lookup" => (events = <<"execute_query">> /\ envelope # <<>>)
    /\ call.op \in {"retrieve_filtered_records", "get_record"} => ~LookedUp
    /\ pc = "returned" => Executed
    /\ (pc = "returned" /\ call.op = "mutate_registry_record") => LookedUp

\* a mutation went through build, execute_query and the lookup, in that
\* order; the builder had accepted the record
C3_Witness ==
    /\ call.op = "mutate_registry_record"
    /\ pc = "returned"
    /\ query.kind = "mutation"
    /\ events = <<"execute_query", "mutation_log">>

====
